---- MODULE Spec2Model ----
(***************************************************************************)
(* Model of the SSH portfolio server of src/main.go: the main routine with *)
(* its done channel and listener goroutine, and one Bubble Tea session per *)
(* accepted connection (model, Update, View).                              *)
(***************************************************************************)
EXTENDS Integers, Sequences, FiniteSets, TLC

\* Number of connections the model lets the listener accept.
MaxSessions == 2

Sessions == 1..MaxSessions

\* Terminal geometries <<width, height>> the transport may report.
Geoms == {<<0, 0>>, <<80, 24>>}

------------------------------------------------------------------------------
\* Constants of main.go

RESUME_URL == "https://drive.google.com/file/d/1azKao3idMCDqJdCHtCTlvc4U3ABYTtJ7/view?usp=sharing"
GITHUB_URL == "https://github.com/KaustubhPatange"
LINKEDIN_URL == "https://www.linkedin.com/in/kaustubhpatange/"
TWITTER_URL == "https://twitter.com/KP206"
\* The bullet U+2022 between two spaces, written in ASCII.
dotChar == " U+2022 "

\* No URL handed to browser.OpenURL.
NoURL == "none"

\* Capacity of the done channel: make(chan os.Signal, 1).
DoneCap == 1

------------------------------------------------------------------------------
\* Styles and rendering (lipgloss).  A rendered text is a sequence of spans;
\* a span is a text with the stack of styles applied to it, outermost first.

NewStyle(r) == [renderer |-> r, bold |-> "unset", fg |-> "unset", marginLeft |-> 0]

Plain(str) == <<[styles |-> <<>>, text |-> str]>>

Render(style, spans) ==
    [i \in DOMAIN spans |->
        [styles |-> <<style>> \o spans[i].styles, text |-> spans[i].text]]

\* Mutant of teaHandler: the window's height is stored as the width too.
teaHandlerHeightAsWidth(s, g) ==
    [Width          |-> g[2],
     Height         |-> g[2],
     Choice         |-> 0,
     Chosen         |-> FALSE,
     mainStyle      |-> [NewStyle(s) EXCEPT !.marginLeft = 2],
     aboutStyle     |-> [NewStyle(s) EXCEPT !.bold = "true", !.fg = "246"],
     aboutNameStyle |-> [NewStyle(s) EXCEPT !.bold = "true", !.fg = "33"],
     checkboxStyle  |-> [NewStyle(s) EXCEPT !.bold = "false", !.fg = "213"],
     subtleStyle    |-> [NewStyle(s) EXCEPT !.fg = "241"],
     dotStyle       |-> Render([NewStyle(s) EXCEPT !.fg = "236"], Plain(dotChar))]

\* The model value teaHandler builds for session s with pty window g.
teaHandler(s, g) ==
    [Width          |-> g[1],
     Height         |-> g[2],
     Choice         |-> 0,
     Chosen         |-> FALSE,
     mainStyle      |-> [NewStyle(s) EXCEPT !.marginLeft = 2],
     aboutStyle     |-> [NewStyle(s) EXCEPT !.bold = "true", !.fg = "246"],
     aboutNameStyle |-> [NewStyle(s) EXCEPT !.bold = "true", !.fg = "33"],
     checkboxStyle  |-> [NewStyle(s) EXCEPT !.bold = "false", !.fg = "213"],
     subtleStyle    |-> [NewStyle(s) EXCEPT !.fg = "241"],
     dotStyle       |-> Render([NewStyle(s) EXCEPT !.fg = "236"], Plain(dotChar))]

\* The zero value of the model struct; held by a slot with no connection yet.
ZeroModel == teaHandler(0, <<0, 0>>)

------------------------------------------------------------------------------
\* Messages (tea.Msg)

Keys == {"q", "ctrl+c", "j", "down", "k", "up", "enter", "x"}

KeyMsg(k) == [type |-> "KeyMsg", key |-> k, Width |-> 0, Height |-> 0]
WindowSizeMsg(g) == [type |-> "WindowSizeMsg", key |-> "", Width |-> g[1], Height |-> g[2]]
OtherMsg == [type |-> "OtherMsg", key |-> "", Width |-> 0, Height |-> 0]
NoMsg == [type |-> "none", key |-> "", Width |-> 0, Height |-> 0]

Msgs == {KeyMsg(k) : k \in Keys} \cup {WindowSizeMsg(g) : g \in Geoms} \cup {OtherMsg}

------------------------------------------------------------------------------
\* model.Update

\* Mutant of the "enter" switch: the last two URLs swapped.
EnterURLSwapped(c) ==
    CASE c = 0 -> RESUME_URL
      [] c = 1 -> GITHUB_URL
      [] c = 2 -> TWITTER_URL
      [] c = 3 -> LINKEDIN_URL
      [] OTHER -> NoURL

\* The inner switch of the "enter" case: the URL given to browser.OpenURL.
EnterURL(c) ==
    CASE c = 0 -> RESUME_URL
      [] c = 1 -> GITHUB_URL
      [] c = 2 -> LINKEDIN_URL
      [] c = 3 -> TWITTER_URL
      [] OTHER -> NoURL

\* Mutants of the "j", "down" case: without the clamp, and wrapping to 0.
ChoiceDownNoClamp(c) == c + 1

ChoiceDownWrap(c) == IF c + 1 > 3 THEN 0 ELSE c + 1

\* case "j", "down"
ChoiceDown(c) == IF c + 1 > 3 THEN 3 ELSE c + 1

\* Mutant of the "k", "up" case: wrapping to the last entry.
ChoiceUpWrap(c) == IF c - 1 < 0 THEN 3 ELSE c - 1

\* Mutant of the "k", "up" case: the lower clamp is off by one.
ChoiceUpFloorOne(c) == IF c - 1 < 1 THEN 1 ELSE c - 1

\* case "k", "up"
ChoiceUp(c) == IF c - 1 < 0 THEN 0 ELSE c - 1

\* Mutants of the case lists: "ctrl+c" not a quit key; "x" a navigate-down key.
QuitKeysOnlyQ == {"q"}

DownKeysWithX == {"j", "down", "x"}

\* The key names of the case lists of the switch on msg.String().
QuitKeys == {"q", "ctrl+c"}

DownKeys == {"j", "down"}

UpKeys == {"k", "up"}

\* Mutant of the resize case: the height is not stored.
ResizeWidthOnly(m, msg) == [m EXCEPT !.Width = msg.Width]

\* Mutant of the resize case: the left margin is dropped on a narrow window.
ResizeRestyle(m, msg) ==
    [m EXCEPT !.Width = msg.Width, !.Height = msg.Height,
              !.mainStyle.marginLeft = IF msg.Width < 40 THEN 0 ELSE @]

\* case tea.WindowSizeMsg
Resize(m, msg) == [m EXCEPT !.Width = msg.Width, !.Height = msg.Height]

\* Mutant of Update: the enter case marks the model as chosen.
UpdateEnterChooses(m, msg) ==
    IF msg.type = "WindowSizeMsg"
    THEN [m |-> Resize(m, msg), cmd |-> "nil", url |-> NoURL]
    ELSE IF msg.type = "KeyMsg"
    THEN CASE msg.key \in QuitKeys ->
                [m |-> m, cmd |-> "Quit", url |-> NoURL]
           [] msg.key \in DownKeys ->
                [m |-> [m EXCEPT !.Choice = ChoiceDown(m.Choice)],
                 cmd |-> "nil", url |-> NoURL]
           [] msg.key \in UpKeys ->
                [m |-> [m EXCEPT !.Choice = ChoiceUp(m.Choice)],
                 cmd |-> "nil", url |-> NoURL]
           [] msg.key = "enter" ->
                [m |-> [m EXCEPT !.Chosen = TRUE],
                 cmd |-> "nil", url |-> EnterURL(m.Choice)]
           [] OTHER ->
                [m |-> m, cmd |-> "nil", url |-> NoURL]
    ELSE [m |-> m, cmd |-> "nil", url |-> NoURL]

\* Update(m, msg): the returned model, the returned command and the URL the
\* call handed to browser.OpenURL on its way (NoURL when it made no call).
Update(m, msg) ==
    IF msg.type = "WindowSizeMsg"
    THEN [m |-> Resize(m, msg), cmd |-> "nil", url |-> NoURL]
    ELSE IF msg.type = "KeyMsg"
    THEN CASE msg.key \in QuitKeys ->
                [m |-> m, cmd |-> "Quit", url |-> NoURL]
           [] msg.key \in DownKeys ->
                [m |-> [m EXCEPT !.Choice = ChoiceDown(m.Choice)],
                 cmd |-> "nil", url |-> NoURL]
           [] msg.key \in UpKeys ->
                [m |-> [m EXCEPT !.Choice = ChoiceUp(m.Choice)],
                 cmd |-> "nil", url |-> NoURL]
           [] msg.key = "enter" ->
                [m |-> m, cmd |-> "nil", url |-> EnterURL(m.Choice)]
           [] OTHER ->
                [m |-> m, cmd |-> "nil", url |-> NoURL]
    ELSE [m |-> m, cmd |-> "nil", url |-> NoURL]

------------------------------------------------------------------------------
\* model.View

\* Mutant of checkbox: the mark ignores the checked flag.
checkboxNeverMarked(checkboxStyle, label, checked) == Plain("[ ] " \o label)

checkbox(checkboxStyle, label, checked) ==
    IF checked
    THEN Render(checkboxStyle, Plain("[x] " \o label))
    ELSE Plain("[ ] " \o label)

\* The four checkbox lines, in the order View formats them.
ViewChoices(m) ==
    LET c == m.Choice
    IN  <<checkbox(m.checkboxStyle, "Resume / CV", c = 0),
          checkbox(m.checkboxStyle, "GitHub", c = 1),
          checkbox(m.checkboxStyle, "Linkedin", c = 2),
          checkbox(m.checkboxStyle, "Twitter", c = 3)>>

ViewAbout(m) ==
    Render(m.aboutStyle,
           Plain("Hi I'm ") \o Render(m.aboutNameStyle, Plain("Kaustubh Patange"))
           \o Plain(",\n\nA self taught developer specialized in many software domains\nincluding Mobile Apps, Web, Backend, Gen AI.\n\nI'm currently working at an AI startup as a FullStack \nEngineer.\n\nI'm fluent in Python, Go, Typescript, Javascript, Kotlin."))

ViewTpl(m) ==
    Render(m.subtleStyle, Plain("j/k, up/down: select")) \o m.dotStyle \o
    Render(m.subtleStyle, Plain("enter: choose")) \o m.dotStyle \o
    Render(m.subtleStyle, Plain("q, ctrl+c: quit"))

\* Mutant of View: the screen size line, commented out in the source, is
\* part of the frame.
ViewWithScreensize(m) ==
    LET ch == ViewChoices(m)
        choices == ch[1] \o Plain("\n") \o ch[2] \o Plain("\n") \o ch[3]
                   \o Plain("\n") \o ch[4]
        s == ViewAbout(m) \o Plain("\n\n") \o choices \o Plain("\n\n") \o ViewTpl(m)
    IN  Plain("Screensize " \o ToString(m.Width) \o " " \o ToString(m.Height) \o "\n")
        \o Render(m.mainStyle, Plain("\n") \o s \o Plain("\n\n"))

View(m) ==
    LET ch == ViewChoices(m)
        choices == ch[1] \o Plain("\n") \o ch[2] \o Plain("\n") \o ch[3]
                   \o Plain("\n") \o ch[4]
        s == ViewAbout(m) \o Plain("\n\n") \o choices \o Plain("\n\n") \o ViewTpl(m)
    IN  Render(m.mainStyle, Plain("\n") \o s \o Plain("\n\n"))

------------------------------------------------------------------------------
\* State

VARIABLES
    mainPc,     \* position of main()
    srv,        \* s: "nil" | "ok" (serving or able to) | "closed" (Shutdown called)
    err,        \* the err variable of main, shared with the listener goroutine
    done,       \* buffered channel done
    lisPc,      \* position of the listener goroutine
    logs,       \* messages written through log.Error / log.Info
    sess,       \* per connection: status, model, position of its program loop
    last        \* the message the most recent Update call received, and where

vars == <<mainPc, srv, err, done, lisPc, logs, sess, last>>

NoSession == [status |-> "none", m |-> ZeroModel, pc |-> "idle", url |-> NoURL, cmd |-> "nil"]

Init ==
    /\ mainPc = "NewServer"
    /\ srv = "nil"
    /\ err = "nil"
    /\ done = <<>>
    /\ lisPc = "none"
    /\ logs = {}
    /\ sess = [s \in Sessions |-> NoSession]
    /\ last = [sid |-> 0, msg |-> NoMsg]

\* The process is running: main has not returned and nothing has panicked.
Alive == mainPc \notin {"Exited", "Crashed"}

\* A session closed from outside its loop: the program is killed and its
\* model is released with it.
Closed == [NoSession EXCEPT !.status = "Terminated"]

\* Every session still connected is closed when the process ends.
KillSessions ==
    [s \in Sessions |-> IF sess[s].status = "Active" THEN Closed ELSE sess[s]]

------------------------------------------------------------------------------
\* main()

LogError(msg) == [level |-> "error", msg |-> msg]
LogInfo(msg) == [level |-> "info", msg |-> msg]

\* Mutant of the NewServer step: the failure is not logged.
MainNewServerSilent ==
    /\ mainPc = "NewServer"
    /\ \E ok \in BOOLEAN :
          IF ok
          THEN /\ srv' = "ok"
               /\ err' = "nil"
          ELSE /\ srv' = "nil"
               /\ err' = "hostkey"
    /\ logs' = logs
    /\ mainPc' = "Setup"
    /\ UNCHANGED <<done, lisPc, sess, last>>

\* wish.NewServer and the check of its error: the host key either loads or
\* not; a failure is logged and main goes on with s = nil.
MainNewServer ==
    /\ mainPc = "NewServer"
    /\ \E ok \in BOOLEAN :
          IF ok
          THEN /\ srv' = "ok"
               /\ err' = "nil"
               /\ logs' = logs
          ELSE /\ srv' = "nil"
               /\ err' = "hostkey"
               /\ logs' = logs \cup {LogError("Could not start server")}
    /\ mainPc' = "Setup"
    /\ UNCHANGED <<done, lisPc, sess, last>>

\* make(chan), signal.Notify, log.Info and the go statement.
MainSetup ==
    /\ mainPc = "Setup"
    /\ logs' = logs \cup {LogInfo("Starting SSH server")}
    /\ lisPc' = "ListenAndServe"
    /\ mainPc' = "WaitDone"
    /\ UNCHANGED <<srv, err, done, sess, last>>

\* The os/signal package delivers SIGINT/SIGTERM with a non-blocking send:
\* the signal is dropped when the buffer of done is full.
Signal ==
    /\ Alive
    /\ mainPc \notin {"NewServer", "Setup"}
    /\ done' = IF Len(done) < DoneCap THEN Append(done, "signal") ELSE done
    /\ UNCHANGED <<mainPc, srv, err, lisPc, logs, sess, last>>

\* <-done, then log.Info("Stopping SSH server").
MainRecvDone ==
    /\ mainPc = "WaitDone"
    /\ done # <<>>
    /\ done' = Tail(done)
    /\ logs' = logs \cup {LogInfo("Stopping SSH server")}
    /\ mainPc' = "Shutdown"
    /\ UNCHANGED <<srv, err, lisPc, sess, last>>

\* The call s.Shutdown(ctx): on a nil server it panics, otherwise it closes
\* the listener and starts waiting for the connections to end.
MainShutdown ==
    /\ mainPc = "Shutdown"
    /\ IF srv = "nil"
       THEN /\ mainPc' = "Crashed"
            /\ sess' = KillSessions
            /\ srv' = srv
            /\ lisPc' = "dead"
            /\ done' = <<>>
       ELSE /\ mainPc' = "InShutdown"
            /\ srv' = "closed"
            /\ UNCHANGED <<sess, lisPc, done>>
    /\ UNCHANGED <<err, logs, last>>

\* s.Shutdown(ctx) returns: nil once no connection is left, the context's
\* error when the 30 seconds pass first (logged); then main returns.
MainShutdownReturn ==
    /\ mainPc = "InShutdown"
    /\ \/ /\ \A s \in Sessions : sess[s].status # "Active"
          /\ logs' = logs
          /\ sess' = sess
       \/ /\ \E s \in Sessions : sess[s].status = "Active"
          /\ logs' = logs \cup {LogError("Could not stop server")}
          /\ sess' = KillSessions
    /\ mainPc' = "Exited"
    /\ lisPc' = "dead"
    /\ done' = <<>>
    /\ UNCHANGED <<srv, err, last>>

------------------------------------------------------------------------------
\* The listener goroutine

\* s.ListenAndServe() is called: a nil server panics; otherwise the listener
\* binds and serves, or the call returns an error, which is logged.
LisListenAndServe ==
    /\ Alive
    /\ lisPc = "ListenAndServe"
    /\ CASE srv = "nil" ->
              /\ mainPc' = "Crashed"
              /\ lisPc' = "dead"
              /\ done' = <<>>
              /\ sess' = KillSessions
              /\ UNCHANGED <<err, logs>>
         [] srv = "ok" ->
              /\ \/ /\ lisPc' = "Listening"
                    /\ UNCHANGED <<err, logs>>
                 \/ /\ err' = "listen"
                    /\ logs' = logs \cup {LogError("Could not start server")}
                    /\ lisPc' = "Send"
              /\ UNCHANGED <<mainPc, sess, done>>
         [] OTHER ->
              /\ err' = "ErrServerClosed"
              /\ lisPc' = "Returned"
              /\ UNCHANGED <<mainPc, sess, logs, done>>
    /\ UNCHANGED <<srv, last>>

\* ListenAndServe returns a serve error after it had been listening.
LisServeError ==
    /\ Alive
    /\ lisPc = "Listening"
    /\ srv = "ok"
    /\ err' = "serve"
    /\ logs' = logs \cup {LogError("Could not start server")}
    /\ lisPc' = "Send"
    /\ UNCHANGED <<mainPc, srv, done, sess, last>>

\* Mutant of LisServerClosed: the goroutine tests err != nil, so that
\* ssh.ErrServerClosed is logged and sent like any other error.
LisServerClosedSends ==
    /\ Alive
    /\ lisPc = "Listening"
    /\ srv = "closed"
    /\ err' = "ErrServerClosed"
    /\ logs' = logs \cup {LogError("Could not start server")}
    /\ lisPc' = "Send"
    /\ UNCHANGED <<mainPc, srv, done, sess, last>>

\* ListenAndServe returns ssh.ErrServerClosed after Shutdown: nothing is
\* logged or sent.
LisServerClosed ==
    /\ Alive
    /\ lisPc = "Listening"
    /\ srv = "closed"
    /\ err' = "ErrServerClosed"
    /\ lisPc' = "Returned"
    /\ UNCHANGED <<mainPc, srv, done, logs, sess, last>>

\* done <- nil: blocks while the buffer is full.
LisSend ==
    /\ Alive
    /\ lisPc = "Send"
    /\ Len(done) < DoneCap
    /\ done' = Append(done, "nil")
    /\ lisPc' = "Returned"
    /\ UNCHANGED <<mainPc, srv, err, logs, sess, last>>

------------------------------------------------------------------------------
\* Sessions: the Bubble Tea program loop around Init, Update and View

\* Mutant of Connect: the listener goes on accepting after Shutdown.
ConnectAfterShutdown(s, g) ==
    /\ Alive
    /\ lisPc = "Listening"
    /\ sess[s].status = "none"
    /\ \A t \in Sessions : t < s => sess[t].status # "none"
    /\ sess' = [sess EXCEPT ![s] = [status |-> "Active", m |-> teaHandler(s, g),
                                    pc |-> "idle", url |-> NoURL, cmd |-> "nil"]]
    /\ UNCHANGED <<mainPc, srv, err, done, lisPc, logs, last>>

\* The listener accepts the next connection and teaHandler builds its model.
Connect(s, g) ==
    /\ Alive
    /\ lisPc = "Listening"
    /\ srv = "ok"
    /\ sess[s].status = "none"
    /\ \A t \in Sessions : t < s => sess[t].status # "none"
    /\ sess' = [sess EXCEPT ![s] = [status |-> "Active", m |-> teaHandler(s, g),
                                    pc |-> "idle", url |-> NoURL, cmd |-> "nil"]]
    /\ UNCHANGED <<mainPc, srv, err, done, lisPc, logs, last>>

\* Mutant of UpdateMsg: one model shared by all sessions, so that the result
\* of an Update call is stored for every running session.
UpdateMsgShared(s, msg) ==
    /\ Alive
    /\ sess[s].status = "Active"
    /\ sess[s].pc = "idle"
    /\ LET r == Update(sess[s].m, msg)
       IN  sess' = [t \in Sessions |->
               IF t = s
               THEN IF r.url # NoURL
                    THEN [sess[t] EXCEPT !.pc = "OpenURL", !.url = r.url]
                    ELSE [sess[t] EXCEPT !.m = r.m, !.cmd = r.cmd, !.url = NoURL,
                              !.status = IF r.cmd = "Quit" THEN "Terminated" ELSE @]
               ELSE IF sess[t].status = "Active" /\ r.url = NoURL
                    THEN [sess[t] EXCEPT !.m.Choice = r.m.Choice]
                    ELSE sess[t]]
    /\ last' = [sid |-> s, msg |-> msg]
    /\ UNCHANGED <<mainPc, srv, err, done, lisPc, logs>>

\* The loop hands msg to Update.  A call that reaches browser.OpenURL stays
\* inside Update until OpenURL returns; any other call returns at once, and
\* the loop ends the program on tea.Quit.
UpdateMsg(s, msg) ==
    /\ Alive
    /\ sess[s].status = "Active"
    /\ sess[s].pc = "idle"
    /\ LET r == Update(sess[s].m, msg)
       IN  sess' = [sess EXCEPT ![s] =
               IF r.url # NoURL
               THEN [@ EXCEPT !.pc = "OpenURL", !.url = r.url]
               ELSE [@ EXCEPT !.m = r.m, !.cmd = r.cmd, !.url = NoURL,
                              !.status = IF r.cmd = "Quit" THEN "Terminated" ELSE @]]
    /\ last' = [sid |-> s, msg |-> msg]
    /\ UNCHANGED <<mainPc, srv, err, done, lisPc, logs>>

\* browser.OpenURL returns, with or without an error; Update drops the
\* result and returns m, nil.
OpenURLReturn(s) ==
    /\ Alive
    /\ sess[s].status = "Active"
    /\ sess[s].pc = "OpenURL"
    /\ \E ok \in BOOLEAN :
          LET r == Update(sess[s].m, KeyMsg("enter"))
          IN  sess' = [sess EXCEPT ![s] =
                  [@ EXCEPT !.m = r.m, !.cmd = r.cmd, !.url = NoURL, !.pc = "idle"]]
    /\ UNCHANGED <<mainPc, srv, err, done, lisPc, logs, last>>

\* The transport closes the connection while the loop waits for a message.
Disconnect(s) ==
    /\ Alive
    /\ sess[s].status = "Active"
    /\ sess[s].pc = "idle"
    /\ sess' = [sess EXCEPT ![s] = Closed]
    /\ UNCHANGED <<mainPc, srv, err, done, lisPc, logs, last>>

------------------------------------------------------------------------------

Next ==
    \/ MainNewServer
    \/ MainSetup
    \/ Signal
    \/ MainRecvDone
    \/ MainShutdown
    \/ MainShutdownReturn
    \/ LisListenAndServe
    \/ LisServeError
    \/ LisServerClosed
    \/ LisSend
    \/ \E s \in Sessions, g \in Geoms : Connect(s, g)
    \/ \E s \in Sessions, msg \in Msgs : UpdateMsg(s, msg)
    \/ \E s \in Sessions : OpenURLReturn(s)
    \/ \E s \in Sessions : Disconnect(s)

Spec == Init /\ [][Next]_vars

\* Window sizes travel as unsigned 32-bit numbers in the pty and
\* window-change requests and reach the model as Go int.  Where int has 64
\* bits they arrive unchanged (Geoms); where it has 32 bits a size of 2^31
\* or more arrives negative: <<-1, -1>> stands for 0xFFFFFFFF x 0xFFFFFFFF.
Geoms32 == Geoms \cup {<<-1, -1>>}

Msgs32 == Msgs \cup {WindowSizeMsg(g) : g \in Geoms32}

\* The program built with a 32-bit int.
Next32 ==
    \/ MainNewServer
    \/ MainSetup
    \/ Signal
    \/ MainRecvDone
    \/ MainShutdown
    \/ MainShutdownReturn
    \/ LisListenAndServe
    \/ LisServeError
    \/ LisServerClosed
    \/ LisSend
    \/ \E s \in Sessions, g \in Geoms32 : Connect(s, g)
    \/ \E s \in Sessions, msg \in Msgs32 : UpdateMsg(s, msg)
    \/ \E s \in Sessions : OpenURLReturn(s)
    \/ \E s \in Sessions : Disconnect(s)

Spec32 == Init /\ [][Next32]_vars

\* The Go scheduler runs every goroutine that can run, and Shutdown returns
\* once the connections are gone or its 30 seconds are over.
FairSpec ==
    /\ Spec
    /\ WF_vars(MainSetup)
    /\ WF_vars(MainRecvDone)
    /\ WF_vars(MainShutdown)
    /\ WF_vars(MainShutdownReturn)
    /\ WF_vars(LisListenAndServe)
    /\ WF_vars(LisSend)

------------------------------------------------------------------------------
\* Properties

\* The sessions that have been connected (still active or ended).
Connected == {s \in Sessions : sess[s].status # "none"}

\* A step in which session s's loop hands the key k to Update.
KeyStep(s, k) == UpdateMsg(s, KeyMsg(k))

\* The menu in its fixed order, as the claims state it.
MenuURLs == <<RESUME_URL, GITHUB_URL, LINKEDIN_URL, TWITTER_URL>>

MenuLabels == <<"Resume / CV", "GitHub", "Linkedin", "Twitter">>

\* C1: in every reachable state the selection index Choice of every session
\* lies in the closed range [0, 3].
C1_ChoiceInRange == \A s \in Sessions : sess[s].m.Choice \in 0..3

\* A navigate-down event was the last one handled and its session rests on
\* the last entry.
C1_Witness ==
    /\ last.sid \in Sessions
    /\ last.msg.key \in {"j", "down"}
    /\ sess[last.sid].status = "Active"
    /\ sess[last.sid].m.Choice = 3

\* C2: a navigate-down event ("j" or "down") at selection i yields selection
\* min(i+1, 3): it clamps at 3 and never wraps to 0; width and height are
\* unchanged and no command is returned.
C2_NavigateDown ==
    [][\A s \in Sessions : \A k \in {"j", "down"} :
          KeyStep(s, k) =>
              LET i == sess[s].m.Choice
              IN  /\ sess'[s].m.Choice = (IF i + 1 < 3 THEN i + 1 ELSE 3)
                  /\ (i = 3 => sess'[s].m.Choice = 3)
                  /\ sess'[s].m.Width = sess[s].m.Width
                  /\ sess'[s].m.Height = sess[s].m.Height
                  /\ sess'[s].cmd = "nil"
                  /\ sess'[s].url = NoURL
                  /\ sess'[s].status = "Active"
                  /\ sess'[s].pc = "idle"]_vars

\* "down" was handled last in a session that is at the last entry while
\* another width than the initial 0 is stored.
C2_Witness ==
    /\ last.sid \in Sessions
    /\ last.msg = KeyMsg("down")
    /\ sess[last.sid].status = "Active"
    /\ sess[last.sid].m.Choice = 3
    /\ sess[last.sid].m.Width = 80

\* C3: a navigate-up event ("k" or "up") at selection i yields selection
\* max(i-1, 0): it clamps at 0 and never wraps to 3; width and height are
\* unchanged and no command is returned.
C3_NavigateUp ==
    [][\A s \in Sessions : \A k \in {"k", "up"} :
          KeyStep(s, k) =>
              LET i == sess[s].m.Choice
              IN  /\ sess'[s].m.Choice = (IF i - 1 > 0 THEN i - 1 ELSE 0)
                  /\ (i = 0 => sess'[s].m.Choice = 0)
                  /\ sess'[s].m.Width = sess[s].m.Width
                  /\ sess'[s].m.Height = sess[s].m.Height
                  /\ sess'[s].cmd = "nil"
                  /\ sess'[s].url = NoURL
                  /\ sess'[s].status = "Active"
                  /\ sess'[s].pc = "idle"]_vars

\* "k" was handled last in a session that is at the first entry.
C3_Witness ==
    /\ last.sid \in Sessions
    /\ last.msg = KeyMsg("k")
    /\ sess[last.sid].status = "Active"
    /\ sess[last.sid].m.Choice = 0
    /\ sess[last.sid].m.Width = 0

\* C4: an activate event ("enter") at selection i hands browser.OpenURL the
\* URL of menu entry i in the fixed order (resume, GitHub, LinkedIn, Twitter)
\* and no other, and the model (selection, width, height) is the same after
\* the event, also once OpenURL has returned.
C4_Activate ==
    [][\A s \in Sessions :
          /\ KeyStep(s, "enter") =>
                /\ sess'[s].url = MenuURLs[sess[s].m.Choice + 1]
                /\ (sess[s].m.Choice = 2 =>
                        sess'[s].url = "https://www.linkedin.com/in/kaustubhpatange/")
                /\ sess'[s].m = sess[s].m
                /\ sess'[s].status = "Active"
          /\ OpenURLReturn(s) =>
                /\ sess'[s].m = sess[s].m
                /\ sess'[s].cmd = "nil"
                /\ sess'[s].status = "Active"]_vars

\* "enter" at selection 2: the LinkedIn URL is with browser.OpenURL.
C4_Witness ==
    \E s \in Sessions :
        /\ last = [sid |-> s, msg |-> KeyMsg("enter")]
        /\ sess[s].m.Choice = 2
        /\ sess[s].pc = "OpenURL"
        /\ sess[s].url = LINKEDIN_URL

\* C5: a quit event ("q" or "ctrl+c") in any state returns tea.Quit and the
\* session is Terminated; a Terminated session handles no later event and
\* nothing about it, its model included, changes again.
C5_QuitAbsorbing ==
    /\ [][\A s \in Sessions : \A k \in {"q", "ctrl+c"} :
             KeyStep(s, k) =>
                 /\ sess'[s].cmd = "Quit"
                 /\ sess'[s].status = "Terminated"
                 /\ sess'[s].m = sess[s].m]_vars
    /\ [][\A s \in Sessions :
             sess[s].status = "Terminated" =>
                 /\ sess'[s] = sess[s]
                 /\ (last' # last => last'.sid # s)]_vars

\* A quit key ended a session that had moved to entry 1, and main has gone
\* on to the shutdown since.
C5_Witness ==
    \E s \in Sessions :
        /\ sess[s].status = "Terminated"
        /\ sess[s].cmd = "Quit"
        /\ sess[s].m.Choice = 1
        /\ last.sid = s
        /\ last.msg.key \in {"q", "ctrl+c"}
        /\ mainPc = "InShutdown"

\* C6: an activate event does not block Update: the open action is handed off
\* and Update has returned, so that the loop can render the next frame and
\* take the next event, while the open action is still running.
C6_ActivateDoesNotBlock ==
    \A s \in Sessions :
        (sess[s].status = "Active" /\ sess[s].url # NoURL) => sess[s].pc = "idle"

\* C7: a resize event (w, h) stores w and h and changes nothing else: the
\* selection and the rest of the model are the same, no command is returned
\* and no URL is opened; the render of the resized model is not empty.
C7_Resize ==
    [][\A s \in Sessions : \A g \in Geoms :
          UpdateMsg(s, WindowSizeMsg(g)) =>
              /\ sess'[s].m.Width = g[1]
              /\ sess'[s].m.Height = g[2]
              /\ sess'[s].m = [sess[s].m EXCEPT !.Width = g[1], !.Height = g[2]]
              /\ sess'[s].m.Choice = sess[s].m.Choice
              /\ sess'[s].cmd = "nil"
              /\ sess'[s].url = NoURL
              /\ sess'[s].status = "Active"
              /\ sess'[s].pc = "idle"
              /\ Len(View(sess'[s].m)) > 0
              /\ \E i \in DOMAIN View(sess'[s].m) : View(sess'[s].m)[i].text # ""]_vars

\* A resize to 80x24 was handled last, in a session that had moved to entry 2.
C7_Witness ==
    \E s \in Sessions :
        /\ last = [sid |-> s, msg |-> WindowSizeMsg(<<80, 24>>)]
        /\ sess[s].status = "Active"
        /\ sess[s].m.Choice = 2
        /\ sess[s].m.Width = 80
        /\ sess[s].m.Height = 24

\* C8: an event that is no resize, navigate, activate or quit event (another
\* key, another message type) leaves the session as it is: same model, no
\* command, no URL opened; nothing is logged and the process goes on.
C8_OtherEventIgnored ==
    [][\A s \in Sessions : \A msg \in {KeyMsg("x"), OtherMsg} :
          UpdateMsg(s, msg) =>
              /\ sess'[s] = sess[s]
              /\ sess'[s].cmd = "nil"
              /\ sess'[s].url = NoURL
              /\ logs' = logs
              /\ mainPc' = mainPc]_vars

\* The key "x" was handled last, in a session that is at entry 1 of an 80
\* columns wide terminal.
C8_Witness ==
    \E s \in Sessions :
        /\ last = [sid |-> s, msg |-> KeyMsg("x")]
        /\ sess[s].status = "Active"
        /\ sess[s].m.Choice = 1
        /\ sess[s].m.Width = 80

\* The text of the checkbox line of entry i (1..4) when the selection is c.
ExpectedLine(i, c) == (IF i - 1 = c THEN "[x] " ELSE "[ ] ") \o MenuLabels[i]

\* C9: in every reachable state the rendered checkbox list has one line per
\* menu entry, in entry order, and exactly one line is marked "[x]", the one
\* of the entry at the selection index, in the checkbox style; every other
\* line is marked "[ ]" and unstyled.  At selection 0 the marked line is
\* "Resume / CV".
C9_CheckboxList ==
    \A s \in Connected :
        LET m == sess[s].m
            lines == ViewChoices(m)
            v == View(m)
        IN  /\ Len(lines) = 4
            /\ \A i \in 1..4 :
                  /\ Len(lines[i]) = 1
                  /\ lines[i][1].text = ExpectedLine(i, m.Choice)
                  /\ lines[i][1].styles =
                        (IF i - 1 = m.Choice THEN <<m.checkboxStyle>> ELSE <<>>)
                  \* the lines are in the frame, in this order
                  /\ v[4 + 2 * i].text = lines[i][1].text
            /\ Cardinality({i \in 1..4 : lines[i][1].text = "[x] " \o MenuLabels[i]}) = 1
            /\ (m.Choice = 0 => lines[1][1].text = "[x] Resume / CV")

\* A session at entry 2 whose third line is the marked one.
C9_Witness ==
    \E s \in Sessions :
        /\ sess[s].status = "Active"
        /\ sess[s].m.Choice = 2
        /\ ViewChoices(sess[s].m)[3][1].text = "[x] Linkedin"
        /\ ViewChoices(sess[s].m)[1][1].text = "[ ] Resume / CV"

\* The start of the server has failed: the host key could not be loaded
\* (NewServer) or the listener could not listen (ListenAndServe).
StartupFailed == err \in {"hostkey", "listen"}

\* C10: a startup failure is logged, no session is served in any state after
\* it, and the process goes on to stop.
C10_StartupFailureFatal ==
    /\ [](StartupFailed =>
            /\ LogError("Could not start server") \in logs
            /\ \A s \in Sessions : sess[s].status = "none")
    /\ (StartupFailed ~> ~Alive)

\* The listener could not listen and main has gone through the shutdown.
C10_Witness ==
    /\ err = "listen"
    /\ mainPc = "Exited"
    /\ LogInfo("Stopping SSH server") \in logs


\* s.Shutdown has been called on the server.
ShutdownStarted == srv = "closed"

SessionStep(t) == (\E msg \in Msgs : UpdateMsg(t, msg)) \/ OpenURLReturn(t)

\* C12: an event handled in one session changes nothing of any other
\* session: not its selection, width or height, nor whether it is Active or
\* Terminated, in whatever order the sessions' events come.
C12_SessionsIsolated ==
    [][\A t \in Sessions : SessionStep(t) =>
          \A s \in Sessions \ {t} :
              /\ sess'[s].m.Choice = sess[s].m.Choice
              /\ sess'[s].m.Width = sess[s].m.Width
              /\ sess'[s].m.Height = sess[s].m.Height
              /\ sess'[s].status = sess[s].status
              /\ sess'[s] = sess[s]]_vars

\* Two sessions run side by side with different selections and geometries;
\* the second one handled the last event.
C12_Witness ==
    /\ MaxSessions >= 2
    /\ sess[1].status = "Active"
    /\ sess[2].status = "Active"
    /\ sess[1].m.Choice = 3
    /\ sess[1].m.Width = 80
    /\ sess[2].m.Choice = 1
    /\ sess[2].m.Width = 0
    /\ last = [sid |-> 2, msg |-> KeyMsg("j")]


\* C13: every new session starts Active, at selection 0, with the width and
\* height of the pty window reported at connect time, whatever they are
\* (0x0 too); its start returns no command, logs nothing and does not end
\* the process.
C13_SessionStart ==
    [][\A s \in Sessions :
          /\ \A g \in Geoms : Connect(s, g) =>
                /\ sess'[s].status = "Active"
                /\ sess'[s].pc = "idle"
                /\ sess'[s].m.Choice = 0
                /\ sess'[s].m.Width = g[1]
                /\ sess'[s].m.Height = g[2]
                /\ sess'[s].cmd = "nil"
                /\ sess'[s].url = NoURL
                /\ logs' = logs
                /\ mainPc' = mainPc
          /\ (sess[s].status = "none" /\ sess'[s].status # "none") =>
                /\ sess'[s].status = "Active"
                /\ sess'[s].m.Choice = 0
                /\ <<sess'[s].m.Width, sess'[s].m.Height>> \in Geoms]_vars

\* The first session has connected from an 80x24 terminal and the second
\* from a 0x0 one; no event has been handled yet.
C13_Witness ==
    /\ last.sid = 0
    /\ sess[1].status = "Active"
    /\ sess[1].m.Width = 80
    /\ sess[1].m.Height = 24
    /\ sess[MaxSessions].status = "Active"
    /\ sess[MaxSessions].m.Width = 0
    /\ sess[MaxSessions].m.Height = 0
    /\ sess[MaxSessions].m.Choice = 0


\* Geometries to render a model at: the reported ones and a larger one.
RenderGeoms == Geoms \cup {<<200, 50>>}

Geometry(s) == <<sess[s].m.Width, sess[s].m.Height>>

\* A step in which session s handles a resize to g.
ResizeStep(s, g) == UpdateMsg(s, WindowSizeMsg(g))

\* C15, as claimed: in every reachable state the Width and Height of every
\* session's model are not negative.
C15_GeometryNeverNegative ==
    \A s \in Sessions : sess[s].m.Width >= 0 /\ sess[s].m.Height >= 0

\* C15, amended: the stored Width and Height are exactly the geometry that
\* was reported last, by the pty window at connect time or by the last
\* resize event since; no other event changes them, so that they are
\* negative only when the reported geometry was.
C15_GeometryAsReported ==
    [][\A s \in Sessions :
          \* connect: the pty window
          /\ (sess[s].status = "none" /\ sess'[s].status = "Active") =>
                \E g \in Geoms32 : Connect(s, g) /\ Geometry(s)' = g
          \* a resize event handled by s
          /\ (last' # last /\ last'.sid = s /\ last'.msg.type = "WindowSizeMsg") =>
                Geometry(s)' = <<last'.msg.Width, last'.msg.Height>>
          \* nothing else changes the geometry of a running session
          /\ (/\ sess[s].status = "Active"
              /\ sess'[s].status = "Active"
              /\ Geometry(s)' # Geometry(s)) =>
                 \E g \in Geoms32 : ResizeStep(s, g) /\ Geometry(s)' = g
          /\ (/\ Geometry(s)[1] >= 0 /\ Geometry(s)[2] >= 0
              /\ (Geometry(s)'[1] < 0 \/ Geometry(s)'[2] < 0)) =>
                 \E g \in Geoms32 :
                     /\ g[1] < 0 \/ g[2] < 0
                     /\ Connect(s, g) \/ ResizeStep(s, g)]_vars

\* A session at entry 1 has stored the negative geometry of its last resize.
C15_Witness ==
    \E s \in Sessions :
        /\ sess[s].status = "Active"
        /\ last = [sid |-> s, msg |-> WindowSizeMsg(<<-1, -1>>)]
        /\ Geometry(s) = <<-1, -1>>
        /\ sess[s].m.Choice = 1


\* The six style bindings of a model.
StyleBindings(m) ==
    <<m.mainStyle, m.aboutStyle, m.aboutNameStyle, m.checkboxStyle,
      m.subtleStyle, m.dotStyle>>

\* C16: the style bindings of a session (main, about, name, checkbox,
\* subtle, separator) are those teaHandler gave it when it was created,
\* whatever events its Update has handled since, while it runs and in the
\* final model a quit leaves.
C16_StylesFixed ==
    \A s \in Sessions :
        (sess[s].status = "Active" \/ sess[s].cmd = "Quit") =>
            /\ StyleBindings(sess[s].m) = StyleBindings(teaHandler(s, <<80, 24>>))
            /\ sess[s].m.mainStyle.marginLeft = 2
            /\ sess[s].m.checkboxStyle.fg = "213"

\* A session that has navigated to entry 2 and was then resized to 0x0.
C16_Witness ==
    \E s \in Sessions :
        /\ sess[s].status = "Active"
        /\ sess[s].m.Choice = 2
        /\ last = [sid |-> s, msg |-> WindowSizeMsg(<<0, 0>>)]
        /\ sess[s].m.Width = 0


\* main is past its receive from done.
PastRecv == mainPc \in {"Shutdown", "InShutdown", "Exited", "Crashed"}

NavKeys == DownKeys \cup UpKeys

Nav(m, k) == Update(m, KeyMsg(k)).m

\* The models that at most n navigate events lead to from the models of M.
RECURSIVE NavReach(_, _)
NavReach(M, n) ==
    IF n = 0
    THEN M
    ELSE NavReach(M \cup {Nav(m, k) : m \in M, k \in NavKeys}, n - 1)

\* C18: from the model of any running session, whatever its selection i,
\* navigate events lead to every selection j of 0..3 (three events are
\* enough, the menu having four entries), and to no other; for i in 0..2 a
\* navigate-down followed by a navigate-up gives back the same model, and for
\* i in 1..3 a navigate-up followed by a navigate-down does.
C18_EntriesReachable ==
    \A s \in Sessions :
        sess[s].status = "Active" =>
            LET m == sess[s].m
                i == m.Choice
                R == NavReach({m}, 3)
            IN  /\ R = {[m EXCEPT !.Choice = j] : j \in 0..3}
                /\ \A d \in DownKeys, u \in UpKeys :
                      /\ i \in 0..2 => Nav(Nav(m, d), u) = m
                      /\ i \in 1..3 => Nav(Nav(m, u), d) = m

\* A session that went down to the last entry and one step back up.
C18_Witness ==
    \E s \in Sessions :
        /\ sess[s].status = "Active"
        /\ sess[s].m.Choice = 2
        /\ last = [sid |-> s, msg |-> KeyMsg("up")]
        /\ Nav(Nav(sess[s].m, "down"), "k") = sess[s].m


\* C19: Chosen is false in every model: teaHandler sets it to false, and the
\* model Update returns for any event, activate among them, has it false
\* again; so it is in every running session and in the final model of a
\* session that quit.
C19_ChosenNeverSet ==
    \A s \in Sessions :
        (sess[s].status = "Active" \/ sess[s].cmd = "Quit") =>
            /\ sess[s].m.Chosen = FALSE
            /\ \A msg \in Msgs : Update(sess[s].m, msg).m.Chosen = FALSE

\* A session whose activate of the last entry has returned.
C19_Witness ==
    \E s \in Sessions :
        /\ sess[s].status = "Active"
        /\ sess[s].pc = "idle"
        /\ last = [sid |-> s, msg |-> KeyMsg("enter")]
        /\ sess[s].m.Choice = 3
        /\ sess[s].m.Chosen = FALSE

====
